---- MODULE Spec2Model ----
(***************************************************************************)
(* A model of UniquePtr<T, Deleter> and UniquePtr<T[], Deleter>            *)
(* (include/unique.hpp): a set of owner objects of one template            *)
(* instantiation, the raw addresses the calling code hands to them, and    *)
(* every deleter invocation they make.                                     *)
(*                                                                         *)
(* Each member function is an operator over a machine record               *)
(*   m = [ptr, del, live, freed, trace]                                    *)
(* computed statement by statement as the C++ computes it; every write to  *)
(* m_ptr / m_deleter and every deleter invocation appends an event (with   *)
(* a snapshot of all m_ptr fields at that moment) to m.trace, so the       *)
(* order of the steps inside one call can be inspected afterwards.  An     *)
(* action runs one whole call and stores its trace, its arguments, its     *)
(* return value and the state it started from in lastOp.                   *)
(***************************************************************************)
EXTENDS Integers, Sequences, FiniteSets, TLC

\* Number of UniquePtr objects (storage slots) the calling code uses.
NumOwners == 2
\* Number of distinct heap addresses the calling code allocates.
NumAddrs == 2

Owners == 1..NumOwners
Addrs == 1..NumAddrs

\* nullptr
NULL == 0
\* m_deleter of storage that holds no object
NoDel == "none"
\* State of a deleter whose value was moved out of it (valid, unspecified).
MovedDel == "moved-from"

Shapes == {"single", "array"}
\* The Deleter template argument: the default one, the tests' CustomDeleter /
\* ArrayDeleter (a bool* flag, moved by copying), or a deleter type whose move
\* leaves the source changed.
DeleterTypes == {"DefaultDeleter", "CustomDeleter", "MoveOnlyDeleter"}
\* The distinct deleter values the calling code builds (the flag each points to).
CustomDeleters == {"flag1", "flag2"}

VARIABLES
    shape,       \* "single": UniquePtr<T, D>; "array": UniquePtr<T[], D>
    deleterType, \* the Deleter template argument
    ptr,         \* ptr[o]: m_ptr of owner o (NULL when no object lives in o)
    del,         \* del[o]: m_deleter of owner o
    live,        \* the owners whose lifetime has begun and not ended
    freed,       \* freed[a]: the deleters invoked on address a so far, in order
    callerHeld,  \* addresses release() returned that the caller still holds
    lastOp       \* the last call: name, arguments, result, start state, trace

vars == <<shape, deleterType, ptr, del, live, freed, callerHeld, lastOp>>

\* DefaultDeleter<T>::operator() is delete, DefaultDeleter<T[]>::operator() delete[].
DefaultDeleter(s) == IF s = "single" THEN "delete" ELSE "delete[]"

\* The deleter values the calling code can pass to the two-argument constructors.
DeleterValues == IF deleterType = "DefaultDeleter" THEN {DefaultDeleter(shape)} ELSE CustomDeleters

\* What std::move leaves in a deleter d it moved from.
MovedFrom(d) == IF deleterType = "MoveOnlyDeleter" THEN MovedDel ELSE d

----
\* Events and primitive steps

Ev(k, o, d, a, m) == [k |-> k, o |-> o, d |-> d, a |-> a, ptr |-> m.ptr, live |-> m.live]

\* An assignment to o's m_ptr.
SetPtr(m, o, p) ==
    LET n == [m EXCEPT !.ptr[o] = p]
    IN  [n EXCEPT !.trace = Append(@, Ev("ptr", o, NoDel, p, n))]

\* An assignment to o's m_deleter.
SetDel(m, o, d) ==
    LET n == [m EXCEPT !.del[o] = d]
    IN  [n EXCEPT !.trace = Append(@, Ev("del", o, d, NULL, n))]

\* m_deleter(a) as called by owner o holding deleter d: the deleter frees a.
Invoke(m, o, d, a) ==
    [m EXCEPT !.freed[a] = Append(@, d),
              !.trace = Append(@, Ev("call", o, d, a, m))]

\* std::exchange(m_ptr, p) on owner o: the old value is returned.
Exchange(m, o, p) == [m |-> SetPtr(m, o, p), ret |-> m.ptr[o]]

\* dst.m_deleter = std::move(src.m_deleter), also the move construction of it.
MoveDel(m, dst, src) ==
    LET d == m.del[src]
    IN  SetDel(SetDel(m, dst, d), src, MovedFrom(d))

----
\* Member functions

get(m, o) == m.ptr[o]

getDeleter(m, o) == m.del[o]

OperatorBool(m, o) == m.ptr[o] # NULL

\* operator==(const UniquePtr&, nullptr_t) and operator==(nullptr_t, const UniquePtr&)
EqNullptr(m, o) == get(m, o) = NULL
NullptrEq(m, o) == get(m, o) = NULL

\* operator==(const UniquePtr&, const UniquePtr&)
EqOwners(m, a, b) == get(m, a) = get(m, b)

\* release() that returns m_ptr without clearing it.
release_keep(m, o) == [m |-> m, ret |-> m.ptr[o]]

\* release() that also runs the deleter on what it returns.
release_frees(m, o) ==
    LET x == Exchange(m, o, NULL)
    IN  [m |-> IF x.ret # NULL THEN Invoke(x.m, o, x.m.del[o], x.ret) ELSE x.m, ret |-> x.ret]

release(m, o) == Exchange(m, o, NULL)

\* reset() without the p == m_ptr guard.
reset_noGuard(m, o, p) ==
    LET x == Exchange(m, o, p)
        old == x.ret
    IN  IF old # NULL THEN Invoke(x.m, o, x.m.del[o], old) ELSE x.m

\* reset() that destroys the old resource before it adopts the new one.
reset_destroyFirst(m, o, p) ==
    IF p = m.ptr[o]
    THEN m
    ELSE LET old == m.ptr[o]
             m1 == IF old # NULL THEN Invoke(m, o, m.del[o], old) ELSE m
         IN  SetPtr(m1, o, p)

reset(m, o, p) ==
    IF p = m.ptr[o]
    THEN m
    ELSE LET x == Exchange(m, o, p)
             old == x.ret
         IN  IF old # NULL THEN Invoke(x.m, o, x.m.del[o], old) ELSE x.m

\* UniquePtr &operator=(std::nullptr_t)
assignNullptr(m, o) == reset(m, o, NULL)

\* Move assignment that takes over the deleter before it resets.
moveAssign_deleterFirst(m, a, b) ==
    IF a # b
    THEN LET m1 == MoveDel(m, a, b)
             r == release(m1, b)
         IN  reset(r.m, a, r.ret)
    ELSE m

\* Move assignment that destroys the receiver's resource, then adopts other's
\* resource and deleter, and empties other last.
moveAssign_destroyAdoptEmpty(m, a, b) ==
    IF a # b
    THEN LET old == m.ptr[a]
             m1 == IF old # NULL /\ old # m.ptr[b] THEN Invoke(m, a, m.del[a], old) ELSE m
             m2 == SetPtr(m1, a, m1.ptr[b])
             m3 == MoveDel(m2, a, b)
         IN  SetPtr(m3, b, NULL)
    ELSE m

\* UniquePtr &operator=(UniquePtr &&other), called on a with other = b
moveAssign(m, a, b) ==
    IF a # b
    THEN LET r == release(m, b)
             m1 == reset(r.m, a, r.ret)
         IN  MoveDel(m1, a, b)
    ELSE m

\* A swap of the pointers without the temporary: a = b; b = a.
SwapPtr_noTmp(m, a, b) ==
    LET m1 == SetPtr(m, a, m.ptr[b])
    IN  SetPtr(m1, b, m1.ptr[a])

\* std::swap(T*&, T*&): tmp = a; a = b; b = tmp
SwapPtr(m, a, b) ==
    LET tmp == m.ptr[a]
        m1 == SetPtr(m, a, m.ptr[b])
    IN  SetPtr(m1, b, tmp)

\* std::swap(Deleter&, Deleter&): tmp = move(a); a = move(b); b = move(tmp)
SwapDel(m, a, b) ==
    LET tmp == m.del[a]
        m1 == [m EXCEPT !.del[a] = MovedFrom(tmp)]
        m2 == MoveDel(m1, a, b)
    IN  SetDel(m2, b, tmp)

\* A swap that empties both owners and then refills them.
swap_viaRelease(m, a, b) ==
    LET ra == release(m, a)
        rb == release(ra.m, b)
        m1 == SetPtr(rb.m, a, IF a = b THEN ra.ret ELSE rb.ret)
        m2 == SetPtr(m1, b, ra.ret)
    IN  SwapDel(m2, a, b)

\* void swap(UniquePtr &other), reached through friend swap(a, b)
swap(m, a, b) == SwapDel(SwapPtr(m, a, b), a, b)

\* explicit UniquePtr(T *p = nullptr): m_ptr(p), m_deleter()
construct(m, o, p) ==
    LET m0 == [m EXCEPT !.live = @ \cup {o}]
    IN  SetDel(SetPtr(m0, o, p), o, DefaultDeleter(shape))

\* UniquePtr(T *p, const Deleter &d) and UniquePtr(T *p, Deleter &&d)
constructWithDeleter(m, o, p, d) ==
    LET m0 == [m EXCEPT !.live = @ \cup {o}]
    IN  SetDel(SetPtr(m0, o, p), o, d)

\* A move constructor that copies other's pointer and leaves it in other.
moveConstruct_copy(m, n, other) ==
    LET m0 == [m EXCEPT !.live = @ \cup {n}]
    IN  MoveDel(SetPtr(m0, n, m0.ptr[other]), n, other)

\* UniquePtr(UniquePtr &&other): the new object is n
moveConstruct(m, n, other) ==
    LET m0 == [m EXCEPT !.live = @ \cup {n}]
        x == Exchange(m0, other, NULL)
    IN  MoveDel(SetPtr(x.m, n, x.ret), n, other)

\* A destructor that never runs the deleter.
destructor_leak(m, o) == [m EXCEPT !.live = @ \ {o}]

\* ~UniquePtr(): o's lifetime ends when its destructor starts
destructor(m, o) ==
    LET m0 == [m EXCEPT !.live = @ \ {o}]
    IN  IF m0.ptr[o] # NULL THEN Invoke(m0, o, m0.del[o], m0.ptr[o]) ELSE m0

----
\* The calling code

\* The machine the next call starts from.
Cur == [ptr |-> ptr, del |-> del, live |-> live, freed |-> freed, trace |-> <<>>]

Pre == [ptr |-> ptr, del |-> del, live |-> live, freed |-> freed, callerHeld |-> callerHeld]

\* Addresses no owner was ever given: not held, not freed, not with the caller.
Fresh == {a \in Addrs : freed[a] = <<>> /\ a \notin callerHeld /\ \A o \in live : ptr[o] # a}

\* new T / new T[n] returns an address never used before; which one carries no
\* meaning, so the allocator hands them out in increasing order.
NewAddr == {a \in Fresh : \A b \in Fresh : a <= b}

\* What the caller may hand to a constructor or to reset: nullptr, a fresh
\* allocation, or an address release() gave back to it.
Unowned == {NULL} \cup NewAddr \cup callerHeld

\* The storage a newly declared object is placed in: any free slot would do, the
\* first one is taken.
FreeSlot == {o \in Owners \ live : \A q \in Owners \ live : o <= q}

\* The storage of an owner whose lifetime ended holds no object.
Scrub(m) ==
    [m EXCEPT !.ptr = [o \in Owners |-> IF o \in m.live THEN m.ptr[o] ELSE NULL],
              !.del = [o \in Owners |-> IF o \in m.live THEN m.del[o] ELSE NoDel]]

\* lastOp between two calls: the calling code is running, no call is recorded.
NoOp ==
    [op |-> "none", self |-> 0, other |-> 0, arg |-> NULL, ret |-> NULL,
     pre |-> [ptr |-> <<>>, del |-> <<>>, live |-> {}, freed |-> <<>>, callerHeld |-> {}],
     trace |-> <<>>]

\* One whole call: it starts from the calling code and leaves machine m0.
Commit(op, self, other, arg, ret, m0, held) ==
    LET m == Scrub(m0)
    IN  /\ lastOp = NoOp
        /\ ptr' = m.ptr
        /\ del' = m.del
        /\ live' = m.live
        /\ freed' = m.freed
        /\ callerHeld' = held
        /\ lastOp' = [op |-> op, self |-> self, other |-> other, arg |-> arg,
                      ret |-> ret, pre |-> Pre, trace |-> m.trace]
        /\ UNCHANGED <<shape, deleterType>>

Init ==
    /\ shape \in Shapes
    /\ deleterType \in DeleterTypes
    /\ ptr = [o \in Owners |-> NULL]
    /\ del = [o \in Owners |-> NoDel]
    /\ live = {}
    /\ freed = [a \in Addrs |-> <<>>]
    /\ callerHeld = {}
    /\ lastOp = NoOp

\* UniquePtr<T> o(p);  (needs a default-constructible Deleter)
Construct(o, p) ==
    /\ o \in FreeSlot
    /\ deleterType = "DefaultDeleter"
    /\ p \in Unowned
    /\ Commit("construct", o, 0, p, NULL, construct(Cur, o, p), callerHeld \ {p})

\* UniquePtr<T, D> o(p, d);
ConstructWithDeleter(o, p, d) ==
    /\ o \in FreeSlot
    /\ p \in Unowned
    /\ Commit("constructWithDeleter", o, 0, p, NULL,
              constructWithDeleter(Cur, o, p, d), callerHeld \ {p})

\* UniquePtr<T, D> n(std::move(other));
MoveConstruct(n, other) ==
    /\ n \in FreeSlot
    /\ other \in live
    /\ Commit("moveConstruct", n, other, NULL, NULL, moveConstruct(Cur, n, other), callerHeld)

\* a = std::move(b);  (a and b may be the same object)
MoveAssign(a, b) ==
    /\ a \in live
    /\ b \in live
    /\ Commit("moveAssign", a, b, NULL, NULL, moveAssign(Cur, a, b), callerHeld)

\* T *r = o.release();
Release(o) ==
    /\ o \in live
    /\ LET x == release(Cur, o)
       IN  Commit("release", o, 0, NULL, x.ret, x.m, callerHeld \cup ({x.ret} \ {NULL}))

\* o.reset(p);  p is unowned, or is o.get() (self-reset)
Reset(o, p) ==
    /\ o \in live
    /\ p \in Unowned \cup {ptr[o]}
    /\ Commit("reset", o, 0, p, NULL, reset(Cur, o, p), callerHeld \ {p})

\* o = nullptr;
AssignNullptr(o) ==
    /\ o \in live
    /\ Commit("assignNullptr", o, 0, NULL, NULL, assignNullptr(Cur, o), callerHeld)

\* swap(a, b);  (a and b may be the same object)
Swap(a, b) ==
    /\ a \in live
    /\ b \in live
    /\ Commit("swap", a, b, NULL, NULL, swap(Cur, a, b), callerHeld)

\* o goes out of scope.
Destroy(o) ==
    /\ o \in live
    /\ Commit("destroy", o, 0, NULL, NULL, destructor(Cur, o), callerHeld)

\* The call has returned; the calling code goes on to its next statement.
Return ==
    /\ lastOp # NoOp
    /\ lastOp' = NoOp
    /\ UNCHANGED <<shape, deleterType, ptr, del, live, freed, callerHeld>>

Next ==
    \/ \E o \in Owners, p \in Addrs \cup {NULL} : Construct(o, p)
    \/ \E o \in Owners, p \in Addrs \cup {NULL}, d \in DeleterValues : ConstructWithDeleter(o, p, d)
    \/ \E n \in Owners, other \in Owners : MoveConstruct(n, other)
    \/ \E a \in Owners, b \in Owners : MoveAssign(a, b)
    \/ \E o \in Owners : Release(o)
    \/ \E o \in Owners, p \in Addrs \cup {NULL} : Reset(o, p)
    \/ \E o \in Owners : AssignNullptr(o)
    \/ \E a \in Owners, b \in Owners : Swap(a, b)
    \/ \E o \in Owners : Destroy(o)
    \/ Return

Spec == Init /\ [][Next]_vars

----
\* Reading the record of the last call

IsCall(e) == e.k = "call"

\* The deleter invocations of a trace, in order, as <<deleter, address>> pairs.
CallsOf(tr) ==
    LET c == SelectSeq(tr, IsCall)
    IN  [i \in 1..Len(c) |-> <<c[i].d, c[i].a>>]

\* The positions in trace tr of the events of kind k made on owner o.
Pos(tr, k, o) == {i \in 1..Len(tr) : tr[i].k = k /\ tr[i].o = o}

\* The owners other than a and b are as the call found them.
OthersUnchanged(a, b) ==
    /\ live = lastOp.pre.live
    /\ \A q \in Owners \ {a, b} : ptr[q] = lastOp.pre.ptr[q] /\ del[q] = lastOp.pre.del[q]

----
\* The claims

\* C1: no double destruction.  Over every sequence of calls in which the caller
\* hands over only unowned, not yet destroyed addresses, a deleter is invoked on
\* any address at most once, and never on an address that a live owner holds at
\* that moment or that release() has handed back to the caller.
C1_NoDoubleDestruction ==
    /\ \A a \in Addrs : Len(freed[a]) <= 1
    /\ \A i \in 1..Len(lastOp.trace) :
          LET e == lastOp.trace[i]
          IN  e.k = "call" =>
                 /\ \A o \in e.live : e.ptr[o] # e.a
                 /\ e.a \notin lastOp.pre.callerHeld

\* A call has just destroyed one address while the caller holds another one that
\* release() gave it.
C1_Witness ==
    /\ CallsOf(lastOp.trace) # <<>>
    /\ \E a \in Addrs, b \in Addrs : a # b /\ Len(freed[a]) = 1 /\ b \in callerHeld

\* C2: exclusive ownership.  In every reachable state no two distinct live
\* owners hold the same non-null address.
C2_ExclusiveOwnership ==
    \A a \in live, b \in live : (a # b /\ ptr[a] # NULL) => ptr[a] # ptr[b]

\* Two live owners hold two addresses right after they were swapped.
C2_Witness ==
    /\ lastOp.op = "swap"
    /\ \E a \in live, b \in live : a # b /\ ptr[a] # NULL /\ ptr[b] # NULL

\* C3: destruction at end of lifetime.  Destroying an owner that holds r invokes
\* the deleter it holds exactly once on r, and r was not destroyed before; the
\* default deleter is delete for the single shape and delete[] for the array
\* shape.  Destroying an empty owner invokes no deleter.
C3_DestructionAtEndOfLifetime ==
    lastOp.op = "destroy" =>
        LET o == lastOp.self
            r == lastOp.pre.ptr[o]
            d == lastOp.pre.del[o]
        IN  /\ o \notin live
            /\ IF r # NULL
               THEN /\ CallsOf(lastOp.trace) = << <<d, r>> >>
                    /\ lastOp.pre.freed[r] = <<>>
                    /\ freed = [lastOp.pre.freed EXCEPT ![r] = <<d>>]
                    /\ deleterType = "DefaultDeleter" => d = DefaultDeleter(shape)
               ELSE /\ CallsOf(lastOp.trace) = <<>>
                    /\ freed = lastOp.pre.freed

\* An array-shape owner with a custom deleter was destroyed while it held an address.
C3_Witness ==
    /\ lastOp.op = "destroy"
    /\ lastOp.pre.ptr[lastOp.self] # NULL
    /\ shape = "array"
    /\ deleterType = "CustomDeleter"

\* C4: move-assign outcome.  After a = move(b) on distinct owners holding ra # rb:
\* a holds rb, b is empty, a's own former deleter da was invoked exactly once on
\* ra if ra was non-null and no deleter was invoked otherwise, rb was not
\* destroyed, and a now holds db, so destroying a destroys rb with db.
C4_MoveAssignOutcome ==
    (/\ lastOp.op = "moveAssign"
     /\ lastOp.self # lastOp.other
     /\ lastOp.pre.ptr[lastOp.self] # lastOp.pre.ptr[lastOp.other]) =>
        LET a == lastOp.self
            b == lastOp.other
            ra == lastOp.pre.ptr[a]
            rb == lastOp.pre.ptr[b]
            da == lastOp.pre.del[a]
            db == lastOp.pre.del[b]
        IN  /\ get(Cur, a) = rb
            /\ get(Cur, b) = NULL
            /\ CallsOf(lastOp.trace) = IF ra # NULL THEN << <<da, ra>> >> ELSE <<>>
            /\ freed = IF ra # NULL THEN [lastOp.pre.freed EXCEPT ![ra] = <<da>>]
                                    ELSE lastOp.pre.freed
            /\ getDeleter(Cur, a) = db
            /\ rb # NULL => /\ freed[rb] = <<>>
                            /\ destructor(Cur, a).freed[rb] = <<db>>

\* a = move(b) ran with both owners non-empty and holding different deleters.
C4_Witness ==
    /\ lastOp.op = "moveAssign"
    /\ lastOp.self # lastOp.other
    /\ lastOp.pre.ptr[lastOp.self] # NULL
    /\ lastOp.pre.ptr[lastOp.other] # NULL
    /\ lastOp.pre.del[lastOp.self] # lastOp.pre.del[lastOp.other]

\* C5: move-construct transfer.  Move-constructing n from an owner holding r and
\* d gives n both r and d, empties the source and invokes no deleter; destroying
\* the source then invokes no deleter, and resetting or destroying n destroys r
\* with d.  Whenever any call destroys an address, it is a reset, an assignment
\* or the destruction of the owner that held it, with that owner's deleter.
C5_MoveConstructTransfer ==
    /\ lastOp.op = "moveConstruct" =>
          LET n == lastOp.self
              src == lastOp.other
              r == lastOp.pre.ptr[src]
              d == lastOp.pre.del[src]
          IN  /\ get(Cur, n) = r
              /\ getDeleter(Cur, n) = d
              /\ get(Cur, src) = NULL
              /\ CallsOf(lastOp.trace) = <<>>
              /\ freed = lastOp.pre.freed
              /\ CallsOf(destructor(Cur, src).trace) = <<>>
              /\ r # NULL => /\ CallsOf(destructor(Cur, n).trace) = << <<d, r>> >>
                             /\ CallsOf(reset(Cur, n, NULL).trace) = << <<d, r>> >>
    /\ \A i \in 1..Len(lastOp.trace) :
          LET e == lastOp.trace[i]
          IN  e.k = "call" =>
                 /\ lastOp.op \in {"reset", "assignNullptr", "moveAssign", "destroy"}
                 /\ e.o = lastOp.self
                 /\ e.a = lastOp.pre.ptr[e.o]
                 /\ e.d = lastOp.pre.del[e.o]

\* An owner was move-constructed from a non-empty one.
C5_Witness ==
    /\ lastOp.op = "moveConstruct"
    /\ lastOp.pre.ptr[lastOp.other] # NULL

\* C6: release() hands ownership to the caller.  It returns exactly the held
\* address, leaves the owner empty (operator bool false, == nullptr true in both
\* orders), invokes no deleter, leaves the owner's deleter and every other owner
\* unchanged, and destroying the owner afterwards invokes no deleter; for both
\* shapes.
C6_ReleaseHandsOver ==
    lastOp.op = "release" =>
        LET o == lastOp.self
        IN  /\ lastOp.ret = lastOp.pre.ptr[o]
            /\ get(Cur, o) = NULL
            /\ ~OperatorBool(Cur, o)
            /\ EqNullptr(Cur, o)
            /\ NullptrEq(Cur, o)
            /\ CallsOf(lastOp.trace) = <<>>
            /\ freed = lastOp.pre.freed
            /\ del = lastOp.pre.del
            /\ OthersUnchanged(o, o)
            /\ CallsOf(destructor(Cur, o).trace) = <<>>
            /\ lastOp.ret # NULL => lastOp.ret \in callerHeld

\* release() ran on a non-empty array-shape owner.
C6_Witness ==
    /\ lastOp.op = "release"
    /\ lastOp.ret # NULL
    /\ shape = "array"

\* C7: self-reset is a no-op.  reset(p) with p the held address (reset(get()),
\* or reset() / = nullptr on an empty owner) invokes no deleter, writes nothing,
\* leaves the address and the deleter as they were, and a later destruction
\* still destroys the address exactly once.
C7_SelfResetNoOp ==
    (/\ lastOp.op \in {"reset", "assignNullptr"}
     /\ lastOp.arg = lastOp.pre.ptr[lastOp.self]) =>
        LET o == lastOp.self
        IN  /\ lastOp.trace = <<>>
            /\ ptr = lastOp.pre.ptr
            /\ del = lastOp.pre.del
            /\ freed = lastOp.pre.freed
            /\ live = lastOp.pre.live
            /\ lastOp.arg # NULL =>
                  /\ freed[lastOp.arg] = <<>>
                  /\ destructor(Cur, o).freed[lastOp.arg] = <<del[o]>>

\* reset(get()) ran on a non-empty owner.
C7_Witness ==
    /\ lastOp.op = "reset"
    /\ lastOp.arg # NULL
    /\ lastOp.arg = lastOp.pre.ptr[lastOp.self]

\* C8: swap exchanges ownership and destroys nothing.  After swap(a, b), a holds
\* the address and deleter b held and b those a held (a and b may be the same
\* object), no deleter was invoked, nothing else changed, and at every step of
\* the swap each of the two holds one of the two addresses: neither passes
\* through an empty state.
C8_SwapExchanges ==
    lastOp.op = "swap" =>
        LET a == lastOp.self
            b == lastOp.other
        IN  /\ get(Cur, a) = lastOp.pre.ptr[b]
            /\ get(Cur, b) = lastOp.pre.ptr[a]
            /\ getDeleter(Cur, a) = lastOp.pre.del[b]
            /\ getDeleter(Cur, b) = lastOp.pre.del[a]
            /\ CallsOf(lastOp.trace) = <<>>
            /\ freed = lastOp.pre.freed
            /\ OthersUnchanged(a, b)
            /\ \A i \in 1..Len(lastOp.trace) : \A o \in {a, b} :
                  lastOp.trace[i].ptr[o] \in {lastOp.pre.ptr[a], lastOp.pre.ptr[b]}

\* Two distinct non-empty owners with different deleters were swapped.
C8_Witness ==
    /\ lastOp.op = "swap"
    /\ lastOp.self # lastOp.other
    /\ lastOp.pre.ptr[lastOp.self] # NULL
    /\ lastOp.pre.ptr[lastOp.other] # NULL
    /\ lastOp.pre.del[lastOp.self] # lastOp.pre.del[lastOp.other]

\* C9: reset replaces, then destroys.  reset(p) with p different from the held
\* address old first stores p and only then, if old is non-null, invokes the
\* deleter on old exactly once; while the deleter runs get() is already p.  If
\* old is null no deleter is invoked.
C9_ResetReplaceThenDestroy ==
    (/\ lastOp.op \in {"reset", "assignNullptr"}
     /\ lastOp.arg # lastOp.pre.ptr[lastOp.self]) =>
        LET o == lastOp.self
            p == lastOp.arg
            old == lastOp.pre.ptr[o]
            tr == lastOp.trace
        IN  /\ get(Cur, o) = p
            /\ Len(tr) = IF old # NULL THEN 2 ELSE 1
            /\ tr[1].k = "ptr" /\ tr[1].o = o /\ tr[1].a = p
            /\ old # NULL =>
                  /\ tr[2].k = "call" /\ tr[2].a = old /\ tr[2].d = lastOp.pre.del[o]
                  /\ tr[2].ptr[o] = p
                  /\ freed[old] = <<lastOp.pre.del[o]>>
            /\ old = NULL => freed = lastOp.pre.freed

\* reset(p) replaced one non-null address by another.
C9_Witness ==
    /\ lastOp.op = "reset"
    /\ lastOp.arg # NULL
    /\ lastOp.pre.ptr[lastOp.self] # NULL
    /\ lastOp.arg # lastOp.pre.ptr[lastOp.self]

\* C10 as stated: in a = move(b) on distinct owners the receiver's deleter runs
\* on the old resource first, then the receiver adopts b's resource and deleter,
\* and only then b is emptied; while the deleter runs, a still holds its old
\* resource and b still holds its own.
C10_MoveAssignOrderAsStated ==
    (/\ lastOp.op = "moveAssign"
     /\ lastOp.self # lastOp.other
     /\ lastOp.pre.ptr[lastOp.self] # NULL) =>
        LET a == lastOp.self
            b == lastOp.other
            tr == lastOp.trace
            calls == {i \in 1..Len(tr) : tr[i].k = "call"}
            adopts == Pos(tr, "ptr", a) \cup Pos(tr, "del", a)
            empties == Pos(tr, "ptr", b)
        IN  /\ calls # {}
            /\ \A i \in calls : \A j \in adopts : i < j
            /\ \A j \in adopts : \A k \in empties : j < k
            /\ \A i \in calls : /\ tr[i].ptr[a] = lastOp.pre.ptr[a]
                                /\ tr[i].ptr[b] = lastOp.pre.ptr[b]

\* C10 amended: in a = move(b) on distinct owners, b is emptied first, then a
\* stores b's former address, then a's own former deleter runs on a's old
\* address (if it was non-null), and only then a takes over b's deleter; while
\* the deleter runs, a already holds b's former address and b is empty.
C10_MoveAssignOrder ==
    (/\ lastOp.op = "moveAssign"
     /\ lastOp.self # lastOp.other) =>
        LET a == lastOp.self
            b == lastOp.other
            ra == lastOp.pre.ptr[a]
            rb == lastOp.pre.ptr[b]
            tr == lastOp.trace
            calls == {i \in 1..Len(tr) : tr[i].k = "call"}
            empties == Pos(tr, "ptr", b)
            stores == Pos(tr, "ptr", a)
            takes == Pos(tr, "del", a)
        IN  /\ empties = {1} /\ tr[1].a = NULL
            /\ stores = IF ra # rb THEN {2} ELSE {}
            /\ \A j \in stores : tr[j].a = rb
            /\ calls = IF ra # rb /\ ra # NULL THEN {3} ELSE {}
            /\ \A i \in calls :
                  /\ tr[i].a = ra /\ tr[i].d = lastOp.pre.del[a]
                  /\ tr[i].ptr[a] = rb
                  /\ tr[i].ptr[b] = NULL
            /\ takes # {}
            /\ \A t \in takes : /\ tr[t].d = lastOp.pre.del[b]
                                /\ \A i \in empties \cup stores \cup calls : i < t

\* a = move(b) ran on two distinct non-empty owners with different deleters.
C10_Witness ==
    /\ lastOp.op = "moveAssign"
    /\ lastOp.self # lastOp.other
    /\ lastOp.pre.ptr[lastOp.self] # NULL
    /\ lastOp.pre.ptr[lastOp.other] # NULL
    /\ lastOp.pre.del[lastOp.self] # lastOp.pre.del[lastOp.other]
    /\ CallsOf(lastOp.trace) # <<>>

====
